---------------------------- MODULE Spec2Model ----------------------------
(***************************************************************************)
(* HTMLnoJS orchestration core.                                            *)
(*                                                                         *)
(* One orchestrator instance (class HTMLnoJS) supervising two servers, the *)
(* Go content-and-registry server ("go") and the Python HTMX handler       *)
(* server ("htmx").  The repository holds three versions of the            *)
(* orchestrator; the instance under study is one of them (impl):           *)
(*   "core" : src/core.py with src/go_server.py (GoServer) and an          *)
(*            HTMXServer offering start()/stop() that is not in the tree   *)
(*   "mono" : src/htmx_server.py, the single-class orchestrator            *)
(*   "pkg"  : src/htmlnojs/core.py with src/htmlnojs/htmx_server.py        *)
(*            (thread based HTMXServer) and a GoServer offering an async   *)
(*            is_running() that is not in the tree                         *)
(* A coroutine is modelled one await at a time: pc is the position of the  *)
(* caller inside start()/stop(), at the position inside the component call *)
(* that pc names.  Child processes are the environment: they answer health *)
(* probes as they please and exit when they please.                        *)
(***************************************************************************)
EXTENDS Integers, Sequences, FiniteSets, TLC

VARIABLES
    impl,           \* which orchestrator class the instance is
    pc,             \* caller position: idle, deps, setup, first, second, rollback, stop1, stop2, ret
    at,             \* position inside the component call at pc
    i,              \* loop index of the poll loop in progress
    call,           \* the call in progress or last completed: none, start, stop
    wait_for_deps,  \* argument of the start() in progress
    result,         \* outcome of the last completed call: true, false, none, raised
    retSite,        \* the return statement that ended the last call
    process,        \* per server: what the handle (_process) refers to: none, alive, exited
    orphan,         \* per server: a live child exists that no handle refers to
    readiness,      \* per server: readiness kept by a ProcessSupervisor
    thread,         \* HTMXServer.thread of pkg: unstarted, waitgo, fetch, serving, closed, dead
    server,         \* HTMXServer._server of pkg: none, created, started
    j,              \* loop index of the thread's wait for the Go server
    go_validated,   \* DependencyManager._go_validated / _dependency_check_complete
    toolchain,      \* environment: `go version` works
    py_htmx_exists, \* environment: <project_dir>/py_htmx exists
    \* history of the call in progress (what the caller could have observed)
    prev,           \* the call completed before this one: none, start, stop
    startOrder,     \* servers in the order the last start() called their start
    stopOrder,      \* servers in the order the last stop() called their stop
    spawned,        \* servers for which this call spawned a child
    signalled,      \* servers whose child this call sent a terminate signal
    okProbe,        \* servers that answered a probe below 500 to this call
    healthySeen,    \* per server: its current child answered a probe below 500
    setupRan,       \* this call ran the project set-up
    \* a stop() called by a second task while start() is suspended
    spc,            \* its position: none, stop1, stop2, done, raised
    sat,            \* position inside the component stop at spc: entry, wait, stale
    \* the instances of the process and their registry
    ids,            \* per instance: self.id, "none" before the constructor has run
    life,           \* per instance: unborn, registering, registered, rejected,
                    \* overwritten, unregistered, swept, finalized
    stops,          \* per instance: how its last stop() ended: never, returned, raised
    instances,      \* the registry: per id the instance stored under it, 0 for none
    sweep,          \* stop_all(): idle, sweeping
    todo,           \* instances the stop_all() in progress has yet to stop
    snapshot,       \* instances that were registered when the last stop_all() began
    swept,          \* instances on which the last stop_all() has called stop()
    raisedIn,       \* instances whose stop() raised inside the last stop_all()
    during,         \* instances whose constructor was called while a stop_all() was in progress
    \* PortManager and the ports of the host
    occupied,       \* environment: the ports on which a bind fails
    caller,         \* the function called: none, find_available_ports,
                    \* find_available_port, allocate_port_pair, core_init, mono_init
    ppc,            \* position of that call: idle, scanning, returned, raised
    start_port,     \* argument start_port
    count,          \* argument count
    current_port,   \* find_available_ports: current_port
    available_ports,\* find_available_ports: available_ports
    probed,         \* ports on which a bind has succeeded during this call
    presult,        \* the ports returned; empty for None.  For a constructor:
                    \* self.go_port, self.python_port
    \* the dependency gate, one step of its code at a time
    dpc,            \* position of ensure_dependencies: idle, install, loop, sleep,
                    \* returned, raised
    gofault,        \* environment, while the toolchain is absent: missing (no go on
                    \* the path), spawn_error, nonzero (`go version` fails)
    script,         \* environment: dependencies.ps1 is absent, unrunnable (the
                    \* spawn of powershell fails), fails (exit code not 0), ok
    timeout,        \* argument timeout
    elapsed,        \* wait_for_go: time() - start_time
    slept,          \* time spent in the asyncio.sleep(5) in progress
    installs,       \* times this call has run the install action
    polls,          \* times wait_for_go has asked check_go_available in this call
    dresult,        \* what the call returned: none, true, false
    checked,        \* how the last check_go_available ended: none, true, false, raised
    appeared,       \* the toolchain turned up during this call, before the timeout
    \* the route registry of the HTMX server of pkg
    reg_map,        \* run(): reg_map: unset, fetched (the registry of the Go
                    \* server), empty (the fetch failed)
    \* the health probes of a readiness loop
    response,       \* what the last probe of the call in progress has yielded
    \* a second start() of the GoServer, called by another task while the first
    \* is suspended
    t2,             \* its position: none, spawning, poll, probing, true, false
    t2i             \* its loop index

vars == <<impl, pc, at, i, call, wait_for_deps, result, retSite, process, orphan,
          readiness, thread, server, j, go_validated, toolchain, py_htmx_exists,
          prev, startOrder, stopOrder, spawned, signalled, okProbe, healthySeen,
          setupRan, spc, sat,
          ids, life, stops, instances, sweep, todo, snapshot, swept, raisedIn, during,
          occupied, caller, ppc, start_port, count, current_port, available_ports,
          probed, presult,
          dpc, gofault, script, timeout, elapsed, slept, installs, polls, dresult,
          checked, appeared, reg_map, response, t2, t2i>>

\* the second start() of the GoServer
overlapvars == <<t2, t2i>>

\* the dependency gate's call and what it depends on in the environment
depvars == <<dpc, gofault, script, timeout, elapsed, slept, installs, polls, dresult,
             checked, appeared>>
\* the state of the one instance whose servers are followed
instvars == <<impl, pc, at, i, call, wait_for_deps, result, retSite, process, orphan,
              readiness, thread, server, j, go_validated, toolchain, py_htmx_exists,
              prev, startOrder, stopOrder, spawned, signalled, okProbe, healthySeen,
              setupRan, spc, sat, depvars, reg_map, response, overlapvars>>
\* the registry and the instances it knows
regvars == <<ids, life, stops, instances, sweep, todo, snapshot, swept, raisedIn, during>>
\* the state outside the instance whose servers are followed
\* PortManager (it keeps no state) and the ports of the host
portvars == <<occupied, caller, ppc, start_port, count, current_port, available_ports,
              probed, presult>>
others == <<regvars, portvars, depvars, overlapvars>>
\* what the steps of a call and of the children leave alone: the thread of the
\* HTMX server of pkg alone writes reg_map, and the probes of a readiness loop
\* alone write response
outside == <<others, reg_map, response>>

ghosts == <<startOrder, stopOrder, spawned, signalled, okProbe, healthySeen, setupRan>>

Servers == {"go", "htmx"}
Impls   == {"core", "mono", "pkg"}

\* instances created in one run of the process, and the ids they are given
MaxInstances == 2
Instances == 1..MaxInstances
Ids == {"a", "b"}

\* ports looked at by one scan.  The code scans 1000 ports
\* (src/port_manager.py:23), and 100 in HTMLnoJS._find_available_port
\* (src/htmx_server.py:62); the model keeps the loops and shortens them
ScanWindow == 4
\* the largest count asked for
MaxCount == 3
\* the values of start_port tried, and the ports of the host they reach
Starts == {9000, 9001}
\* the port from which a constructor that is given no port scans
DefaultStart == 8080
Ports == (DefaultStart..(DefaultStart + ScanWindow - 1)) \cup (9000..(9000 + ScanWindow))
\* the values of the constructor's argument port; 0 stands for None as well
\* (`if port:` and `port or ...` take the two alike)
PortArgs == {-1, 0, 9000}
\* wait_for_go: await asyncio.sleep(5)
PollInterval == 5
\* the values of the argument timeout (300 when it is left out)
Timeouts == {0, 1, 7}
\* the ways in which the self-check fails while the toolchain is absent
GoFaults == {"missing", "spawn_error", "nonzero"}
Scripts == {"absent", "unrunnable", "fails", "ok"}

\* s is strictly ascending
Ascending(s) == \A a, b \in 1..Len(s) : a < b => s[a] < s[b]

\* iterations of a readiness poll loop.  The code polls 30 times
\* (src/go_server.py:43, src/htmx_server.py:240 and 278); the model keeps
\* the loop and shortens it
PollCount == 2
\* iterations of the thread's wait for the Go server; 20 in the code
\* (src/htmlnojs/htmx_server.py:101)
GoWaitCount == 2

\* what one health probe can yield: an HTTP status, or an exception (err)
Answers == {[err |-> FALSE, status |-> 200], [err |-> FALSE, status |-> 404],
            [err |-> FALSE, status |-> 500], [err |-> FALSE, status |-> 503]}
Failure == [err |-> TRUE, status |-> 0]
\* no probe has been sent yet
Unprobed == [err |-> TRUE, status |-> -1]


TypeOK ==
    /\ impl \in Impls
    /\ pc \in {"idle", "deps", "setup", "first", "second", "rollback", "stop1", "stop2", "ret"}
    /\ at \in {"none", "entry", "spawning", "poll", "probing", "wait"}
    /\ i \in 0..PollCount
    /\ call \in {"none", "start", "stop"}
    /\ wait_for_deps \in BOOLEAN
    /\ result \in {"pending", "true", "false", "none", "raised"}
    /\ retSite \in {"none", "deps", "setup", "first", "second", "ok", "stop1", "stop2"}
    /\ process \in [Servers -> {"none", "alive", "exited"}]
    /\ orphan \in [Servers -> BOOLEAN]
    /\ readiness \in [Servers -> {"idle", "starting", "healthy", "failed", "stopped"}]
    /\ thread \in {"unstarted", "waitgo", "fetch", "serving", "closed", "dead"}
    /\ server \in {"none", "created", "started"}
    /\ j \in 0..GoWaitCount
    /\ go_validated \in BOOLEAN
    /\ toolchain \in BOOLEAN
    /\ py_htmx_exists \in BOOLEAN
    /\ spawned \subseteq Servers
    /\ signalled \subseteq Servers
    /\ okProbe \subseteq Servers
    /\ healthySeen \in [Servers -> BOOLEAN]
    /\ setupRan \in BOOLEAN
    /\ spc \in {"none", "stop1", "stop2", "done", "raised"}
    /\ sat \in {"entry", "wait", "stale"}
    /\ ids \in [Instances -> Ids \cup {"none"}]
    /\ life \in [Instances -> {"unborn", "registering", "registered", "rejected",
                               "overwritten", "unregistered", "swept", "finalized"}]
    /\ stops \in [Instances -> {"never", "returned", "raised"}]
    /\ instances \in [Ids -> Instances \cup {0}]
    /\ sweep \in {"idle", "sweeping"}
    /\ todo \subseteq Instances
    /\ snapshot \subseteq Instances
    /\ swept \subseteq Instances
    /\ raisedIn \subseteq Instances
    /\ during \subseteq Instances
    /\ occupied \subseteq Ports
    /\ caller \in {"none", "find_available_ports", "find_available_port", "allocate_port_pair",
                   "core_init", "mono_init"}
    /\ ppc \in {"idle", "scanning", "returned", "raised"}
    /\ start_port \in Starts \cup {DefaultStart}
    /\ count \in 1..MaxCount
    /\ current_port \in Int
    /\ available_ports \in Seq(Ports) /\ Len(available_ports) <= MaxCount
    /\ probed \subseteq Ports
    /\ presult \in Seq(Int) /\ Len(presult) <= MaxCount
    /\ dpc \in {"idle", "install", "loop", "sleep", "returned", "raised"}
    /\ gofault \in GoFaults
    /\ script \in Scripts
    /\ timeout \in Timeouts
    /\ elapsed \in Nat
    /\ slept \in 0..PollInterval
    /\ installs \in Nat
    /\ polls \in Nat
    /\ dresult \in {"none", "true", "false"}
    /\ checked \in {"none", "true", "false", "raised"}
    /\ appeared \in BOOLEAN
    /\ reg_map \in {"unset", "fetched", "empty"}
    /\ response \in Answers \cup {Failure, Unprobed}
    /\ t2 \in {"none", "spawning", "poll", "probing", "true", "false"}
    /\ t2i \in 0..PollCount

\* no instance has been created: the registry is empty
RegistryInit ==
    /\ ids = [n \in Instances |-> "none"]
    /\ life = [n \in Instances |-> "unborn"]
    /\ stops = [n \in Instances |-> "never"]
    /\ instances = [id \in Ids |-> 0]
    /\ sweep = "idle"
    /\ todo = {}
    /\ snapshot = {}
    /\ swept = {}
    /\ raisedIn = {}
    /\ during = {}

\* no call of PortManager has been made
\* no call of the dependency gate has been made
DepsIdle ==
    /\ dpc = "idle"
    /\ timeout = 0
    /\ elapsed = 0
    /\ slept = 0
    /\ installs = 0
    /\ polls = 0
    /\ dresult = "none"
    /\ checked = "none"
    /\ appeared = FALSE

PortsIdle ==
    /\ caller = "none"
    /\ ppc = "idle"
    /\ start_port = 9000
    /\ count = 1
    /\ current_port = 9000
    /\ available_ports = <<>>
    /\ probed = {}
    /\ presult = <<>>

\* one instance, constructed
InstanceInit ==
    /\ impl \in Impls
    /\ pc = "idle"
    /\ at = "none"
    /\ i = 0
    /\ call = "none"
    /\ wait_for_deps = TRUE
    /\ result = "pending"
    /\ retSite = "none"
    /\ process = [s \in Servers |-> "none"]
    /\ orphan = [s \in Servers |-> FALSE]
    /\ readiness = [s \in Servers |-> "idle"]
    /\ thread = "unstarted"
    /\ server = "none"
    /\ j = 0
    /\ go_validated = FALSE
    /\ toolchain \in BOOLEAN
    /\ py_htmx_exists \in BOOLEAN
    /\ prev = "none"
    /\ startOrder = <<>>
    /\ stopOrder = <<>>
    /\ spawned = {}
    /\ signalled = {}
    /\ okProbe = {}
    /\ healthySeen = [s \in Servers |-> FALSE]
    /\ setupRan = FALSE
    /\ spc = "none"
    /\ sat = "entry"
    /\ reg_map = "unset"
    /\ response = Unprobed
    /\ t2 = "none"
    /\ t2i = 0

Init ==
    /\ InstanceInit
    /\ RegistryInit
    /\ occupied = {}
    /\ PortsIdle
    /\ DepsIdle /\ gofault = "missing" /\ script = "absent"

(***************************************************************************)
(* The order in which start() and stop() call the two components.          *)
(***************************************************************************)
\* core: start_htmx_server() then start_go_server(); mono: start_go_server()
\* then start_python_server(); pkg: go_server.is_running() then
\* htmx_server.is_running()
StartSeq ==
    IF impl = "core" THEN <<"htmx", "go">> ELSE <<"go", "htmx">>

\* every version: the Go server, then the HTMX server
StopSeq == <<"go", "htmx">>

\* the server the component call at pc works on
Cur ==
    CASE pc = "first"    -> StartSeq[1]
      [] pc = "second"   -> StartSeq[2]
      [] pc = "rollback" -> StartSeq[1]
      [] pc = "stop1"    -> StopSeq[1]
      [] pc = "stop2"    -> StopSeq[2]
      [] OTHER           -> "none"

\* the class that manages server s in this version
Kind(s) ==
    CASE impl = "core" /\ s = "go"   -> "GoServer"
      [] impl = "core" /\ s = "htmx" -> "Supervisor"
      [] impl = "mono"               -> "Mono"
      [] impl = "pkg"  /\ s = "go"   -> "Supervisor"
      [] impl = "pkg"  /\ s = "htmx" -> "HTMXServer"

Starting(s, k, a) == pc \in {"first", "second"} /\ Cur = s /\ Kind(s) = k /\ at = a
Stopping(s, k, a) == pc \in {"rollback", "stop1", "stop2"} /\ Cur = s /\ Kind(s) = k /\ at = a

Goto(p) ==
    /\ pc' = p
    /\ at' = "entry"
    /\ i' = 0
    /\ UNCHANGED <<result, retSite>>

Return(r, site) ==
    /\ pc' = "ret"
    /\ at' = "none"
    /\ i' = 0
    /\ result' = r
    /\ retSite' = site

Stay(a, n) ==
    /\ pc' = pc
    /\ at' = a
    /\ i' = n
    /\ UNCHANGED <<result, retSite>>

(***************************************************************************)
(* start() and stop() of the orchestrator: what the caller does when the   *)
(* component call at pc comes back with ok (a start) or comes back / raises *)
(* (a stop).                                                               *)
(***************************************************************************)
\* src/core.py:96-105
core_start(ok) ==
    CASE pc = "first"  -> IF ok THEN Goto("second") ELSE Return("false", "first")
      [] pc = "second" -> IF ok THEN Return("true", "ok") ELSE Goto("rollback")

\* src/htmx_server.py:425-437
mono_start(ok) ==
    CASE pc = "first"  -> IF ok THEN Goto("second") ELSE Return("false", "first")
      [] pc = "second" -> IF ok THEN Return("true", "ok") ELSE Return("false", "second")

\* src/htmlnojs/core.py:49-55: both results are dropped
pkg_start(ok) ==
    CASE pc = "first"  -> Goto("second")
      [] pc = "second" -> Return("true", "ok")

StartDone(ok) ==
    CASE impl = "core" -> core_start(ok)
      [] impl = "mono" -> mono_start(ok)
      [] impl = "pkg"  -> pkg_start(ok)

\* src/core.py:107-110, src/htmx_server.py:439-453, src/htmlnojs/core.py:57-60:
\* an exception of a component's stop leaves stop() at once
StopDone(raised) ==
    CASE raised          -> Return("raised", pc)
      [] pc = "rollback" -> Return("false", "second")
      [] pc = "stop1"    -> Goto("stop2")
      [] pc = "stop2"    -> Return("none", "stop2")


kept  == <<impl, call, wait_for_deps, prev, spc, outside>>
fixed == <<kept, sat>>
\* what a probe of a readiness loop leaves alone
steady == <<impl, call, wait_for_deps, prev, spc, sat, others, reg_map>>
thr   == <<thread, server, j>>
deps  == <<go_validated, toolchain>>

(***************************************************************************)
(* The caller: one call at a time on the instance.                         *)
(***************************************************************************)
\* await app.start(wait_for_deps=w)
start_call(w) ==
    /\ pc \in {"idle", "ret"}
    /\ spc \notin {"stop1", "stop2"}
    /\ call' = "start"
    /\ wait_for_deps' = w
    /\ prev' = call
    /\ pc' = IF impl = "pkg" THEN "first" ELSE IF w THEN "deps" ELSE "setup"
    /\ at' = IF impl = "pkg" THEN "entry" ELSE "none"
    /\ i' = 0
    /\ result' = "pending"
    /\ retSite' = "none"
    /\ startOrder' = <<>>
    /\ spawned' = {}
    /\ signalled' = {}
    /\ okProbe' = {}
    /\ setupRan' = FALSE
    /\ spc' = "none"
    /\ sat' = "entry"
    /\ response' = Unprobed
    /\ UNCHANGED <<impl, process, orphan, readiness, thr, deps, py_htmx_exists,
                   stopOrder, healthySeen, others, reg_map>>

\* await app.stop()
stop_call ==
    /\ pc \in {"idle", "ret"}
    /\ spc \notin {"stop1", "stop2"}
    /\ call' = "stop"
    /\ prev' = call
    /\ pc' = "stop1"
    /\ at' = "entry"
    /\ i' = 0
    /\ result' = "pending"
    /\ retSite' = "none"
    /\ stopOrder' = <<>>
    /\ spawned' = {}
    /\ signalled' = {}
    /\ okProbe' = {}
    /\ setupRan' = FALSE
    /\ spc' = "none"
    /\ sat' = "entry"
    /\ UNCHANGED <<impl, wait_for_deps, process, orphan, readiness, thr, deps,
                   py_htmx_exists, startOrder, healthySeen, others, reg_map>>
    /\ response' = Unprobed

(***************************************************************************)
(* The environment: a child exits on its own (a crash, or its reaction to  *)
(* a terminate signal).                                                    *)
(***************************************************************************)
child_exits(s) ==
    /\ process[s] = "alive"
    /\ process' = [process EXCEPT ![s] = "exited"]
    /\ UNCHANGED <<fixed, pc, at, i, result, retSite, orphan, readiness, thr, deps,
                   py_htmx_exists, startOrder, stopOrder, spawned, signalled,
                   okProbe, healthySeen, setupRan>>

orphan_exits(s) ==
    /\ orphan[s]
    /\ orphan' = [orphan EXCEPT ![s] = FALSE]
    /\ UNCHANGED <<fixed, pc, at, i, result, retSite, process, readiness, thr, deps,
                   py_htmx_exists, startOrder, stopOrder, spawned, signalled,
                   okProbe, healthySeen, setupRan>>

(***************************************************************************)
(* Dependency gate.  inst: the install script exists and exits 0.          *)
(* appears: the toolchain turns up before the timeout of the wait.         *)
(***************************************************************************)
\* DependencyManager.check_go_available
check_go_available == go_validated \/ toolchain

\* DependencyManager.ensure_dependencies: the value returned
ensure_dependencies(inst, appears) ==
    check_go_available \/ (inst /\ appears)

\* what ensure_dependencies leaves behind: a positive check is cached, and a
\* toolchain that turned up during wait_for_go is there
ensure_effect(inst, appears) ==
    /\ toolchain' = (toolchain \/ (~go_validated /\ inst /\ appears))
    /\ go_validated' = (go_validated \/ toolchain \/ (inst /\ appears))

\* HTMLnoJS.wait_for_dependencies of mono: _wait_for_go does not set the flag
wait_for_dependencies_effect(inst, appears) ==
    /\ toolchain' = (toolchain \/ (~go_validated /\ inst /\ appears))
    /\ go_validated' = (go_validated \/ toolchain)

DepsEffect(inst, appears) ==
    IF impl = "mono" THEN wait_for_dependencies_effect(inst, appears)
    ELSE ensure_effect(inst, appears)

\* a start() that checks the dependencies and goes on whatever the answer
start_deps_falls_through ==
    /\ pc = "deps"
    /\ \E inst \in BOOLEAN, appears \in BOOLEAN : DepsEffect(inst, appears)
    /\ pc' = "setup"
    /\ UNCHANGED <<at, i, result, retSite>>
    /\ UNCHANGED <<fixed, process, orphan, readiness, thr, py_htmx_exists,
                   startOrder, stopOrder, spawned, signalled, okProbe,
                   healthySeen, setupRan>>

\* start(): if wait_for_deps: if not await self.ensure_dependencies(): return False
start_deps ==
    /\ pc = "deps"
    /\ \E inst \in BOOLEAN, appears \in BOOLEAN :
          /\ DepsEffect(inst, appears)
          /\ IF ensure_dependencies(inst, appears)
               THEN pc' = "setup" /\ UNCHANGED <<at, i, result, retSite>>
               ELSE Return("false", "deps")
    /\ UNCHANGED <<fixed, process, orphan, readiness, thr, py_htmx_exists,
                   startOrder, stopOrder, spawned, signalled, okProbe,
                   healthySeen, setupRan>>

(***************************************************************************)
(* Project layout.                                                         *)
(***************************************************************************)
\* core: ProjectManager.ensure_structure.  made: setup_via_go or
\* create_structure produced <project_dir>/py_htmx
core_setup ==
    /\ pc = "setup"
    /\ impl = "core"
    /\ IF py_htmx_exists
         THEN Goto("first") /\ UNCHANGED <<py_htmx_exists, setupRan>>
         ELSE \E made \in BOOLEAN :
                 /\ py_htmx_exists' = made
                 /\ setupRan' = TRUE
                 /\ IF made THEN Goto("first") ELSE Return("false", "setup")
    /\ UNCHANGED <<fixed, process, orphan, readiness, thr, deps,
                   startOrder, stopOrder, spawned, signalled, okProbe, healthySeen>>

\* mono: start() calls setup_project() when py_htmx is missing; setup_project
\* waits for the dependencies again and runs `go run main.go -directory`;
\* on the 60 s timeout the child is left running
mono_setup ==
    /\ pc = "setup"
    /\ impl = "mono"
    /\ IF py_htmx_exists
         THEN /\ Goto("first")
              /\ UNCHANGED <<py_htmx_exists, setupRan, deps, orphan>>
         ELSE \E inst \in BOOLEAN, appears \in BOOLEAN, out \in {"ok", "failed", "timeout"} :
                 /\ DepsEffect(inst, appears)
                 /\ IF ~ensure_dependencies(inst, appears)
                      THEN /\ Return("false", "setup")
                           /\ UNCHANGED <<py_htmx_exists, setupRan, orphan>>
                      ELSE /\ setupRan' = TRUE
                           /\ py_htmx_exists' = (out = "ok")
                           /\ orphan' = [orphan EXCEPT !["go"] = @ \/ out = "timeout"]
                           /\ IF out = "ok" THEN Goto("first") ELSE Return("false", "setup")
    /\ UNCHANGED <<fixed, process, readiness, thr,
                   startOrder, stopOrder, spawned, signalled, okProbe, healthySeen>>

(***************************************************************************)
(* Health probes and child processes.                                      *)
(***************************************************************************)
\* something answers on the port of server s
Listening(s) ==
    \/ process[s] = "alive"
    \/ s = "htmx" /\ impl = "pkg" /\ thread = "serving"

Probe(s) == IF Listening(s) THEN Answers \cup {Failure} ELSE {Failure}

\* a probe that takes a client error for not ready
test_health_strict(r) == ~r.err /\ r.status < 400

\* GoServer._test_health / HTMLnoJS._test_server: response.status < 500,
\* and False on any exception
test_health(r) == ~r.err /\ r.status < 500

\* GoServer.is_running: self._process is not None and returncode is None
is_running(s) == process[s] = "alive"

\* the server the stop() of the second task works on
SCur ==
    CASE spc = "stop1" -> StopSeq[1]
      [] spc = "stop2" -> StopSeq[2]
      [] OTHER         -> "none"

\* self._process = await asyncio.create_subprocess_exec(...).  A stop() that
\* is waiting for the child the handle referred to until now keeps waiting
\* for that one
Spawn(s) ==
    /\ sat' = IF SCur = s /\ sat = "wait" THEN "stale" ELSE sat
    /\ process' = [process EXCEPT ![s] = "alive"]
    /\ orphan' = [orphan EXCEPT ![s] = @ \/ process[s] = "alive"]
    /\ healthySeen' = [healthySeen EXCEPT ![s] = FALSE]
    /\ spawned' = spawned \cup {s}

\* stop() of the orchestrator has reached the stop of server s
NoteStop(s) ==
    stopOrder' = IF pc = "rollback" THEN stopOrder ELSE Append(stopOrder, s)

Healthy(s) ==
    /\ okProbe' = okProbe \cup {s}
    /\ healthySeen' = [healthySeen EXCEPT ![s] = TRUE]

(***************************************************************************)
(* GoServer of src/go_server.py (the Go server of core).                   *)
(***************************************************************************)
\* start(): if self.is_running: return True; otherwise go on to spawn
GoServer_start_entry ==
    /\ Starting("go", "GoServer", "entry")
    /\ startOrder' = Append(startOrder, "go")
    /\ IF is_running("go") THEN StartDone(TRUE) ELSE Stay("spawning", 0)
    /\ UNCHANGED <<fixed, process, orphan, readiness, thr, deps, py_htmx_exists,
                   stopOrder, spawned, signalled, okProbe, healthySeen, setupRan>>

\* create_subprocess_exec returns the child, or raises (except: return False)
GoServer_start_spawn ==
    /\ Starting("go", "GoServer", "spawning")
    /\ \/ Spawn("go") /\ Stay("poll", 0)
       \/ StartDone(FALSE) /\ UNCHANGED <<process, orphan, healthySeen, spawned, sat>>
    /\ UNCHANGED <<kept, readiness, thr, deps, py_htmx_exists,
                   startOrder, stopOrder, signalled, okProbe, setupRan>>

\* a loop that sends the child a termination signal when it gives up
GoServer_start_poll_killing ==
    /\ Starting("go", "GoServer", "poll")
    /\ IF i >= PollCount
         THEN StartDone(FALSE) /\ signalled' = signalled \cup {"go"}
         ELSE /\ UNCHANGED signalled
              /\ IF process["go"] \in {"exited", "none"} THEN StartDone(FALSE)
                 ELSE Stay("probing", i)
    /\ UNCHANGED <<fixed, process, orphan, readiness, thr, deps, py_htmx_exists,
                   startOrder, stopOrder, spawned, okProbe, healthySeen, setupRan>>

\* head of an iteration of `for _ in range(30)`: the loop is exhausted
\* (return False), the child has exited (return False), the handle has been
\* cleared meanwhile (AttributeError, except: return False), or a probe is
\* sent
GoServer_start_poll ==
    /\ Starting("go", "GoServer", "poll")
    /\ IF i >= PollCount THEN StartDone(FALSE)
       ELSE IF process["go"] \in {"exited", "none"} THEN StartDone(FALSE)
       ELSE Stay("probing", i)
    /\ UNCHANGED <<fixed, process, orphan, readiness, thr, deps, py_htmx_exists, ghosts>>

\* if await self._test_health(): return True; else sleep(1) and loop
GoServer_start_probe ==
    /\ Starting("go", "GoServer", "probing")
    /\ \E r \in Probe("go") :
          /\ response' = r
          /\ IF test_health(r)
               THEN Healthy("go") /\ StartDone(TRUE)
               ELSE Stay("poll", i + 1) /\ UNCHANGED <<okProbe, healthySeen>>
    /\ UNCHANGED <<steady, process, orphan, readiness, thr, deps, py_htmx_exists,
                   startOrder, stopOrder, spawned, signalled, setupRan>>

\* stop(): if self._process: self._process.terminate().  terminate() on a
\* child that has exited raises ProcessLookupError once the transport is
\* closed and does nothing before that
GoServer_stop_entry ==
    /\ Stopping("go", "GoServer", "entry")
    /\ NoteStop("go")
    /\ CASE process["go"] = "none"   -> StopDone(FALSE) /\ UNCHANGED signalled
         [] process["go"] = "alive"  -> Stay("wait", 0) /\ signalled' = signalled \cup {"go"}
         [] process["go"] = "exited" -> /\ UNCHANGED signalled
                                        /\ \/ StopDone(TRUE)
                                           \/ Stay("wait", 0)
    /\ UNCHANGED <<fixed, process, orphan, readiness, thr, deps, py_htmx_exists,
                   startOrder, spawned, okProbe, healthySeen, setupRan>>

\* await self._process.wait(); self._process = None
GoServer_stop_wait ==
    /\ Stopping("go", "GoServer", "wait")
    /\ process["go"] = "exited"
    /\ process' = [process EXCEPT !["go"] = "none"]
    /\ StopDone(FALSE)
    /\ UNCHANGED <<fixed, orphan, readiness, thr, deps, py_htmx_exists, ghosts>>

(***************************************************************************)
(* The two servers of mono, src/htmx_server.py: start_go_server /          *)
(* start_python_server and the two halves of stop().                       *)
(***************************************************************************)
\* if self._go_process and returncode is None: return True.  start_go_server
\* then waits for the dependencies again; start_python_server does not (the
\* handler file it writes when missing is taken to be writable)
mono_start_entry(s) ==
    /\ Starting(s, "Mono", "entry")
    /\ startOrder' = Append(startOrder, s)
    /\ IF is_running(s)
         THEN StartDone(TRUE) /\ UNCHANGED deps
         ELSE IF s = "go"
           THEN \E inst \in BOOLEAN, appears \in BOOLEAN :
                   /\ DepsEffect(inst, appears)
                   /\ IF ensure_dependencies(inst, appears)
                        THEN Stay("spawning", 0)
                        ELSE StartDone(FALSE)
           ELSE Stay("spawning", 0) /\ UNCHANGED deps
    /\ UNCHANGED <<fixed, process, orphan, readiness, thr, py_htmx_exists,
                   stopOrder, spawned, signalled, okProbe, healthySeen, setupRan>>

mono_start_spawn(s) ==
    /\ Starting(s, "Mono", "spawning")
    /\ \/ Spawn(s) /\ Stay("poll", 0)
       \/ StartDone(FALSE) /\ UNCHANGED <<process, orphan, healthySeen, spawned, sat>>
    /\ UNCHANGED <<kept, readiness, thr, deps, py_htmx_exists,
                   startOrder, stopOrder, signalled, okProbe, setupRan>>

\* for i in range(30): no look at the child's returncode
mono_start_poll(s) ==
    /\ Starting(s, "Mono", "poll")
    /\ IF i >= PollCount THEN StartDone(FALSE) ELSE Stay("probing", i)
    /\ UNCHANGED <<fixed, process, orphan, readiness, thr, deps, py_htmx_exists, ghosts>>

mono_start_probe(s) ==
    /\ Starting(s, "Mono", "probing")
    /\ \E r \in Probe(s) :
          /\ response' = r
          /\ IF test_health(r)
               THEN Healthy(s) /\ StartDone(TRUE)
               ELSE Stay("poll", i + 1) /\ UNCHANGED <<okProbe, healthySeen>>
    /\ UNCHANGED <<steady, process, orphan, readiness, thr, deps, py_htmx_exists,
                   startOrder, stopOrder, spawned, signalled, setupRan>>

\* if self._go_process: self._go_process.terminate()
mono_stop_entry(s) ==
    /\ Stopping(s, "Mono", "entry")
    /\ NoteStop(s)
    /\ CASE process[s] = "none"   -> StopDone(FALSE) /\ UNCHANGED signalled
         [] process[s] = "alive"  -> Stay("wait", 0) /\ signalled' = signalled \cup {s}
         [] process[s] = "exited" -> /\ UNCHANGED signalled
                                     /\ \/ StopDone(TRUE)
                                        \/ Stay("wait", 0)
    /\ UNCHANGED <<fixed, process, orphan, readiness, thr, deps, py_htmx_exists,
                   startOrder, spawned, okProbe, healthySeen, setupRan>>

\* await self._go_process.wait(); self._go_process = None
mono_stop_wait(s) ==
    /\ Stopping(s, "Mono", "wait")
    /\ process[s] = "exited"
    /\ process' = [process EXCEPT ![s] = "none"]
    /\ StopDone(FALSE)
    /\ UNCHANGED <<fixed, orphan, readiness, thr, deps, py_htmx_exists, ghosts>>

(***************************************************************************)
(* ProcessSupervisor, for the two component classes that the tree does not *)
(* hold: the HTMXServer of core (start/stop) and the GoServer of pkg       *)
(* (is_running/stop).  Modelled from section 4.3 of the specification.     *)
(***************************************************************************)
\* 1. if already healthy, return true; 2. otherwise spawn
Supervisor_start_entry(s) ==
    /\ Starting(s, "Supervisor", "entry")
    /\ startOrder' = Append(startOrder, s)
    /\ IF readiness[s] = "healthy"
         THEN StartDone(TRUE) /\ UNCHANGED readiness
         ELSE Stay("spawning", 0) /\ readiness' = [readiness EXCEPT ![s] = "starting"]
    /\ UNCHANGED <<fixed, process, orphan, thr, deps, py_htmx_exists,
                   stopOrder, spawned, signalled, okProbe, healthySeen, setupRan>>

\* 2. spawn failure: failed, return false
Supervisor_start_spawn(s) ==
    /\ Starting(s, "Supervisor", "spawning")
    /\ \/ Spawn(s) /\ Stay("poll", 0) /\ UNCHANGED readiness
       \/ /\ readiness' = [readiness EXCEPT ![s] = "failed"]
          /\ StartDone(FALSE)
          /\ UNCHANGED <<process, orphan, healthySeen, spawned, sat>>
    /\ UNCHANGED <<kept, thr, deps, py_htmx_exists,
                   startOrder, stopOrder, signalled, okProbe, setupRan>>

\* 3./4. the bounded poll loop: exhausted or child exited: failed, return
\* false (the child is not killed); otherwise probe
Supervisor_start_poll(s) ==
    /\ Starting(s, "Supervisor", "poll")
    /\ IF i >= PollCount \/ process[s] = "exited"
         THEN readiness' = [readiness EXCEPT ![s] = "failed"] /\ StartDone(FALSE)
         ELSE Stay("probing", i) /\ UNCHANGED readiness
    /\ UNCHANGED <<fixed, process, orphan, thr, deps, py_htmx_exists, ghosts>>

\* 3. a status below 500: healthy, return true; anything else: not yet ready
Supervisor_start_probe(s) ==
    /\ Starting(s, "Supervisor", "probing")
    /\ \E r \in Probe(s) :
          /\ response' = r
          /\ IF test_health(r)
               THEN /\ Healthy(s)
                    /\ readiness' = [readiness EXCEPT ![s] = "healthy"]
                    /\ StartDone(TRUE)
               ELSE Stay("poll", i + 1) /\ UNCHANGED <<okProbe, healthySeen, readiness>>
    /\ UNCHANGED <<steady, process, orphan, thr, deps, py_htmx_exists,
                   startOrder, stopOrder, spawned, signalled, setupRan>>

\* stop(): no handle: no-op; otherwise signal termination and wait
Supervisor_stop_entry(s) ==
    /\ Stopping(s, "Supervisor", "entry")
    /\ NoteStop(s)
    /\ IF process[s] = "none"
         THEN StopDone(FALSE) /\ UNCHANGED signalled
         ELSE /\ Stay("wait", 0)
              /\ signalled' = IF process[s] = "alive" THEN signalled \cup {s} ELSE signalled
    /\ UNCHANGED <<fixed, process, orphan, readiness, thr, deps, py_htmx_exists,
                   startOrder, spawned, okProbe, healthySeen, setupRan>>

\* the child has exited: clear the handle, set stopped
Supervisor_stop_wait(s) ==
    /\ Stopping(s, "Supervisor", "wait")
    /\ process[s] = "exited"
    /\ process' = [process EXCEPT ![s] = "none"]
    /\ readiness' = [readiness EXCEPT ![s] = "stopped"]
    /\ StopDone(FALSE)
    /\ UNCHANGED <<fixed, orphan, thr, deps, py_htmx_exists, ghosts>>

(***************************************************************************)
(* HTMXServer of src/htmlnojs/htmx_server.py (the HTMX server of pkg): a   *)
(* uvicorn server run by a daemon thread of the orchestrating process.     *)
(***************************************************************************)
thread_is_alive == thread \in {"waitgo", "fetch", "serving", "closed"}

\* is_running(): if not self.thread.is_alive(): self.thread.start().
\* Starting a thread that has already run raises RuntimeError
HTMXServer_is_running_entry ==
    /\ Starting("htmx", "HTMXServer", "entry")
    /\ startOrder' = Append(startOrder, "htmx")
    /\ CASE thread_is_alive      -> Stay("probing", 0) /\ UNCHANGED <<thread, j>>
         [] thread = "unstarted" -> Stay("probing", 0) /\ thread' = "waitgo" /\ j' = 0
         [] thread = "dead"      -> Return("raised", pc) /\ UNCHANGED <<thread, j>>
    /\ UNCHANGED <<fixed, process, orphan, readiness, server, deps, py_htmx_exists,
                   stopOrder, spawned, signalled, okProbe, healthySeen, setupRan>>

\* r = await s.get(health); return r.status < 500; False on an exception
HTMXServer_is_running_probe ==
    /\ Starting("htmx", "HTMXServer", "probing")
    /\ \E r \in Probe("htmx") :
          IF test_health(r)
            THEN Healthy("htmx") /\ StartDone(TRUE)
            ELSE StartDone(FALSE) /\ UNCHANGED <<okProbe, healthySeen>>
    /\ UNCHANGED <<fixed, process, orphan, readiness, thr, deps, py_htmx_exists,
                   startOrder, stopOrder, spawned, signalled, setupRan>>

\* run(): for i in range(20): GET go/health; below 500: break; else sleep.
\* When the loop runs out the thread goes on just the same
thread_wait_go ==
    /\ thread = "waitgo"
    /\ IF j >= GoWaitCount
         THEN thread' = "fetch" /\ UNCHANGED <<j, okProbe, healthySeen>>
         ELSE \E r \in Probe("go") :
                 IF test_health(r)
                   THEN /\ thread' = "fetch"
                        /\ healthySeen' = [healthySeen EXCEPT !["go"] = TRUE]
                        /\ UNCHANGED <<j, okProbe>>
                   ELSE /\ j' = j + 1
                        /\ UNCHANGED <<thread, okProbe, healthySeen>>
    /\ UNCHANGED <<fixed, pc, at, i, result, retSite, process, orphan, readiness,
                   server, deps, py_htmx_exists, startOrder, stopOrder, spawned,
                   signalled, setupRan>>

\* requests.get(<go>/_routes.json); resp.raise_for_status(); resp.json(): the
\* ways the one fetch of the registry can end.  It can succeed only when
\* something answers on the port of the Go server
fetch_registry == IF Listening("go") THEN {"fetched", "failed"} ELSE {"failed"}

\* run(): fetch the registry (except Exception: reg_map = {}), build the app,
\* self._server = uvicorn.Server(cfg); self._server.run().  The thread dies
\* when a handler module fails to import (no server object) or when the port
\* cannot be bound (server object never started)
thread_serve ==
    /\ thread = "fetch"
    /\ \E got \in fetch_registry :
          reg_map' = IF got = "fetched" THEN "fetched" ELSE "empty"
    /\ \/ thread' = "serving" /\ server' = "started"
       \/ thread' = "dead" /\ server' = "created"
       \/ thread' = "dead" /\ UNCHANGED server
    /\ UNCHANGED <<impl, call, wait_for_deps, prev, spc, sat, others, response>>
    /\ UNCHANGED <<pc, at, i, result, retSite, process, orphan, readiness, j,
                   deps, py_htmx_exists, ghosts>>

\* stop(): if self._server and self._server.started: await shutdown()
HTMXServer_stop ==
    /\ Stopping("htmx", "HTMXServer", "entry")
    /\ NoteStop("htmx")
    /\ thread' = IF server = "started" /\ thread = "serving" THEN "closed" ELSE thread
    /\ StopDone(FALSE)
    /\ UNCHANGED <<fixed, process, orphan, readiness, server, j, deps, py_htmx_exists,
                   startOrder, spawned, signalled, okProbe, healthySeen, setupRan>>

(***************************************************************************)
(* The system.                                                             *)
(***************************************************************************)
\* the steps of a call in progress, of the children and of the thread
Steps ==
    \/ \E s \in Servers : child_exits(s)
    \/ \E s \in Servers : orphan_exits(s)
    \/ start_deps
    \/ core_setup
    \/ mono_setup
    \/ GoServer_start_entry
    \/ GoServer_start_spawn
    \/ GoServer_start_poll
    \/ GoServer_start_probe
    \/ GoServer_stop_entry
    \/ GoServer_stop_wait
    \/ \E s \in Servers : mono_start_entry(s)
    \/ \E s \in Servers : mono_start_spawn(s)
    \/ \E s \in Servers : mono_start_poll(s)
    \/ \E s \in Servers : mono_start_probe(s)
    \/ \E s \in Servers : mono_stop_entry(s)
    \/ \E s \in Servers : mono_stop_wait(s)
    \/ \E s \in Servers : Supervisor_start_entry(s)
    \/ \E s \in Servers : Supervisor_start_spawn(s)
    \/ \E s \in Servers : Supervisor_start_poll(s)
    \/ \E s \in Servers : Supervisor_start_probe(s)
    \/ \E s \in Servers : Supervisor_stop_entry(s)
    \/ \E s \in Servers : Supervisor_stop_wait(s)
    \/ HTMXServer_is_running_entry
    \/ HTMXServer_is_running_probe
    \/ thread_wait_go
    \/ thread_serve
    \/ HTMXServer_stop

Next ==
    \/ \E w \in BOOLEAN : start_call(w)
    \/ stop_call
    \/ Steps

Spec == Init /\ [][Next]_vars

(***************************************************************************)
(* Observations used by the properties.                                    *)
(***************************************************************************)
\* HTMLnoJS.status() of core: the snapshot a caller can query (the fields
\* that change over the life of the instance)
status ==
    [go_server   |-> [running |-> is_running("go")],
     htmx_server |-> [running |-> is_running("htmx")],
     running     |-> (is_running("go") /\ is_running("htmx"))]

StartReturned(r) == pc = "ret" /\ call = "start" /\ result = r
StopReturned     == pc = "ret" /\ call = "stop"

\* the dependency gate would let a start() through
DepsReady == go_validated \/ toolchain

(***************************************************************************)
(* Properties.                                                             *)
(***************************************************************************)
\* C1: whenever start() returns false, no child process of the instance is
\* alive at that moment, whichever server failed and however it failed
C1_RollbackInvariant ==
    StartReturned("false") => \A s \in Servers : process[s] # "alive"

\* C2: when the server launched second fails to start, the server launched
\* first, which had become healthy, is stopped (its handle cleared) before
\* start() returns false
C2_FirstStoppedWhenSecondFails ==
    (StartReturned("false") /\ retSite = "second")
        => process[StartSeq[1]] = "none"

\* the HTMX server begins its startup in this step: its child is spawned, or
\* its thread begins to serve
HtmxBegins ==
    \/ process["htmx"] # "alive" /\ process'["htmx"] = "alive"
    \/ thread # "serving" /\ thread' = "serving"

\* C3: the HTMX server never begins its startup before the Go server has been
\* observed healthy by a probe
C3_StartupOrdering ==
    [][HtmxBegins => healthySeen["go"]]_vars

\* C4: stop() raises no error and leaves both supervisors without a process
\* handle; a stop() that follows a stop() spawns nothing and signals nothing
C4_StopIdempotent ==
    StopReturned =>
        /\ result = "none"
        /\ \A s \in Servers : process[s] = "none"
        /\ prev = "stop" => (spawned = {} /\ signalled = {})

\* C5: stop() stops the HTMX server (secondary) first and the Go server
\* (primary) second, whatever state either is in
C5_HtmxStoppedFirst ==
    /\ (call = "stop" /\ stopOrder # <<>>) => stopOrder[1] = "htmx"
    /\ (StopReturned /\ result = "none") => stopOrder = <<"htmx", "go">>

\* C6: teardown reverses the startup order: the server that start() launched
\* first is the one that stop() stops last
C6_TeardownReversesStartup ==
    (StopReturned /\ result = "none" /\ Len(startOrder) = 2 /\ Len(stopOrder) = 2)
        => stopOrder[2] = startOrder[1]

\* C7: stop() does not propagate the error of one component's stop and
\* still stops the other: after stop() no child is alive and both handles
\* are cleared
C7_BestEffortTeardown ==
    StopReturned =>
        /\ result # "raised"
        /\ \A s \in Servers : process[s] # "alive"
        /\ \A s \in Servers : process[s] = "none"

\* C8: while the dependency gate fails, a start(wait_for_deps = true) does
\* not get past it: it sets up no project layout, spawns nothing, and
\* returns false from the gate (core and mono; the start() of pkg has no
\* dependency gate)
C8_DependencyGate ==
    (call = "start" /\ wait_for_deps /\ impl # "pkg" /\ ~DepsReady) =>
        /\ pc \in {"deps", "ret"}
        /\ ~setupRan
        /\ spawned = {}
        /\ pc = "ret" => (result = "false" /\ retSite = "deps")

\* a start() has come back false from the dependency gate
C8_Witness ==
    StartReturned("false") /\ retSite = "deps" /\ wait_for_deps /\ ~DepsReady

\* the failure reason a caller can query from the snapshot
last_error(st) == IF "last_error" \in DOMAIN st THEN st.last_error ELSE "none"

\* C9: a start() that returned false leaves a queryable failure reason
C9_FailureReason ==
    StartReturned("false") => last_error(status) # "none"

\* C10: start() returns true only if both servers answered a health probe
\* with a status below 500 during that start()
C10_TrueOnlyIfBothHealthy ==
    StartReturned("true") => okProbe = Servers

(***************************************************************************)
(* stop() called while start() is in progress.  asyncio runs the two       *)
(* coroutines on one loop: the second task runs while start() is suspended *)
(* at an await, and start() goes on while stop() is suspended at           *)
(* `await self._process.wait()`.  Neither start() nor stop() holds a lock  *)
(* or looks at a cancellation flag.                                        *)
(***************************************************************************)
\* start() is suspended at an await or has returned, so that the loop can
\* run the second task.  Every position of the call is one: between the
\* is_running check and the assignment of the handle the call is suspended
\* inside create_subprocess_exec
MainYields == TRUE

\* asyncio.create_task(app.stop()) while app.start() is suspended
stop_request ==
    /\ call = "start"
    /\ pc \notin {"idle", "ret"}
    /\ MainYields
    /\ spc = "none"
    /\ spc' = "stop1"
    /\ sat' = "entry"
    /\ stopOrder' = <<>>
    /\ UNCHANGED <<impl, pc, at, i, call, wait_for_deps, result, retSite, process,
                   orphan, readiness, thr, deps, py_htmx_exists, prev, startOrder,
                   spawned, signalled, okProbe, healthySeen, setupRan, outside>>

TaskStopping(s, k, a) == MainYields /\ SCur = s /\ Kind(s) = k /\ sat = a

\* stop() of the orchestrator, second task: the component stop at spc has
\* come back or has raised (src/core.py:107-110, src/htmx_server.py:439-453,
\* src/htmlnojs/core.py:57-60)
TaskStopDone(raised) ==
    /\ spc' = CASE raised        -> "raised"
                [] spc = "stop1" -> "stop2"
                [] spc = "stop2" -> "done"
    /\ sat' = "entry"

\* if self._process: self._process.terminate(), then await wait()
TaskTerminate(s, mayRaise) ==
    /\ stopOrder' = Append(stopOrder, s)
    /\ CASE process[s] = "none"   -> TaskStopDone(FALSE) /\ UNCHANGED signalled
         [] process[s] = "alive"  -> /\ spc' = spc
                                     /\ sat' = "wait"
                                     /\ signalled' = signalled \cup {s}
         [] process[s] = "exited" -> /\ UNCHANGED signalled
                                     /\ \/ mayRaise /\ TaskStopDone(TRUE)
                                        \/ spc' = spc /\ sat' = "wait"
    /\ UNCHANGED <<impl, pc, at, i, call, wait_for_deps, result, retSite, process,
                   orphan, readiness, thr, deps, py_htmx_exists, prev, startOrder,
                   spawned, okProbe, healthySeen, setupRan, outside>>

\* await self._process.wait() comes back; self._process = None.  The child
\* waited for is the one the handle referred to at terminate(); a child that
\* start() has spawned since loses its handle
TaskWaited(s) ==
    /\ MainYields
    /\ sat = "stale" \/ (sat = "wait" /\ process[s] = "exited")
    /\ process' = [process EXCEPT ![s] = "none"]
    /\ orphan' = [orphan EXCEPT ![s] = @ \/ process[s] = "alive"]
    /\ TaskStopDone(FALSE)
    /\ UNCHANGED <<impl, pc, at, i, call, wait_for_deps, result, retSite,
                   thr, deps, py_htmx_exists, prev, ghosts, outside>>

task_GoServer_stop_entry ==
    /\ TaskStopping("go", "GoServer", "entry")
    /\ TaskTerminate("go", TRUE)

task_GoServer_stop_wait ==
    /\ SCur = "go" /\ Kind("go") = "GoServer"
    /\ TaskWaited("go")
    /\ UNCHANGED readiness

task_mono_stop_entry(s) ==
    /\ TaskStopping(s, "Mono", "entry")
    /\ TaskTerminate(s, TRUE)

task_mono_stop_wait(s) ==
    /\ SCur = s /\ Kind(s) = "Mono"
    /\ TaskWaited(s)
    /\ UNCHANGED readiness

task_Supervisor_stop_entry(s) ==
    /\ TaskStopping(s, "Supervisor", "entry")
    /\ TaskTerminate(s, FALSE)

task_Supervisor_stop_wait(s) ==
    /\ SCur = s /\ Kind(s) = "Supervisor"
    /\ TaskWaited(s)
    /\ readiness' = [readiness EXCEPT ![s] = "stopped"]

\* if self._server and self._server.started: await shutdown()
task_HTMXServer_stop ==
    /\ TaskStopping("htmx", "HTMXServer", "entry")
    /\ stopOrder' = Append(stopOrder, "htmx")
    /\ thread' = IF server = "started" /\ thread = "serving" THEN "closed" ELSE thread
    /\ TaskStopDone(FALSE)
    /\ UNCHANGED <<impl, pc, at, i, call, wait_for_deps, result, retSite, process,
                   orphan, readiness, server, j, deps, py_htmx_exists, prev,
                   startOrder, spawned, signalled, okProbe, healthySeen, setupRan, outside>>

NextCancel ==
    \/ Next
    \/ stop_request
    \/ task_GoServer_stop_entry
    \/ task_GoServer_stop_wait
    \/ \E s \in Servers : task_mono_stop_entry(s)
    \/ \E s \in Servers : task_mono_stop_wait(s)
    \/ \E s \in Servers : task_Supervisor_stop_entry(s)
    \/ \E s \in Servers : task_Supervisor_stop_wait(s)
    \/ task_HTMXServer_stop

SpecCancel == Init /\ [][NextCancel]_vars

\* the stop() of the second task has returned and so has the start() it cut in on
Cancelled == call = "start" /\ pc = "ret" /\ spc = "done"

\* C11: once a stop() issued while start() was in progress has returned and
\* start() has come to its end, no child process of the instance is running
\* (start() has spawned none after that stop() returned, and stop() has
\* ended those spawned before)
C11_CancelLeavesNoChild ==
    Cancelled => \A s \in Servers : process[s] # "alive"

(***************************************************************************)
(* The instances of one process and their registry.  mono keeps the class  *)
(* attribute HTMLnoJS.instances (src/htmx_server.py:27).  core and pkg     *)
(* call InstanceRegistry, a module that is not in the tree: its operations *)
(* are modelled from section 4.4 of the specification (a mapping from id   *)
(* to a non-owning instance reference, register failing with DuplicateId,  *)
(* unregister a no-op when absent, stopAll stopping every registered       *)
(* instance and then clearing) and section 5 (register, unregister and     *)
(* stopAll mutually exclusive).  The servers of an instance are left out   *)
(* here: a stop() returns or raises.                                       *)
(***************************************************************************)
\* the instance the next constructor call creates
Fresh == CHOOSE n \in Instances :
            life[n] = "unborn" /\ \A m \in Instances : m < n => life[m] # "unborn"

\* HTMLnoJS.get / InstanceRegistry.get: the instance stored under id, or none
get(id) == instances[id]

\* InstanceRegistry.list_all / the values of HTMLnoJS.instances
list_all == {instances[id] : id \in Ids} \ {0}

\* a constructor that does not store the instance
mono_init_unstored(id) ==
    /\ impl = "mono"
    /\ \E n \in Instances : life[n] = "unborn"
    /\ ids' = [ids EXCEPT ![Fresh] = id]
    /\ life' = [life EXCEPT ![Fresh] = "registered"]
    /\ UNCHANGED <<instvars, portvars, instances, stops, sweep, todo, snapshot, swept, raisedIn, during>>

\* mono: HTMLnoJS.__init__: self.id = alias or uuid; HTMLnoJS.instances[self.id] = self.
\* The assignment replaces whatever was stored under the id
mono_init(id) ==
    /\ impl = "mono"
    /\ \E n \in Instances : life[n] = "unborn"
    /\ ids' = [ids EXCEPT ![Fresh] = id]
    /\ instances' = [instances EXCEPT ![id] = Fresh]
    /\ life' = [n \in Instances |->
                  IF n = Fresh THEN "registered"
                  ELSE IF instances[id] = n THEN "overwritten"
                  ELSE life[n]]
    /\ UNCHANGED <<instvars, portvars, stops, sweep, todo, snapshot, swept, raisedIn, during>>

\* core, pkg: HTMLnoJS.__init__ up to its last statement, InstanceRegistry.register(self)
core_init(id) ==
    /\ impl # "mono"
    /\ \E n \in Instances : life[n] = "unborn"
    /\ ids' = [ids EXCEPT ![Fresh] = id]
    /\ life' = [life EXCEPT ![Fresh] = "registering"]
    /\ during' = IF sweep = "sweeping" THEN during \cup {Fresh} ELSE during
    /\ UNCHANGED <<instvars, portvars, stops, instances, sweep, todo, snapshot, swept, raisedIn>>

\* a register that does not wait for a stop_all() in progress
InstanceRegistry_register_unlocked(n) ==
    /\ life[n] = "registering"
    /\ IF instances[ids[n]] # 0
         THEN /\ life' = [life EXCEPT ![n] = "rejected"]
              /\ UNCHANGED instances
         ELSE /\ life' = [life EXCEPT ![n] = "registered"]
              /\ instances' = [instances EXCEPT ![ids[n]] = n]
    /\ UNCHANGED <<instvars, portvars, ids, stops, sweep, todo, snapshot, swept, raisedIn, during>>

\* InstanceRegistry.register(instance): fails with DuplicateId if the id is
\* there (the constructor raises), otherwise stores the instance
InstanceRegistry_register(n) ==
    /\ life[n] = "registering"
    /\ sweep = "idle"
    /\ IF instances[ids[n]] # 0
         THEN /\ life' = [life EXCEPT ![n] = "rejected"]
              /\ UNCHANGED instances
         ELSE /\ life' = [life EXCEPT ![n] = "registered"]
              /\ instances' = [instances EXCEPT ![ids[n]] = n]
    /\ UNCHANGED <<instvars, portvars, ids, stops, sweep, todo, snapshot, swept, raisedIn, during>>

\* what unregister(id) does to the registry: the entry goes, if there is one
Unregister(id) ==
    instances' = [instances EXCEPT ![id] = 0]

\* InstanceRegistry.unregister(id), called by the user
InstanceRegistry_unregister(id) ==
    /\ impl # "mono"
    /\ sweep = "idle"
    /\ Unregister(id)
    /\ life' = [n \in Instances |-> IF instances[id] = n THEN "unregistered" ELSE life[n]]
    /\ UNCHANGED <<instvars, portvars, ids, stops, sweep, todo, snapshot, swept, raisedIn, during>>

\* core, pkg: HTMLnoJS.__del__: InstanceRegistry.unregister(self.id).  The
\* registry does not keep the instance alive, so the finalizer runs when the
\* caller lets go of the instance, also of one whose constructor has raised
core_del(n) ==
    /\ impl # "mono"
    /\ life[n] \in {"registered", "rejected", "unregistered", "swept"}
    /\ sweep = "idle"
    /\ Unregister(ids[n])
    /\ life' = [m \in Instances |->
                  IF m = n THEN "finalized"
                  ELSE IF instances[ids[n]] = m THEN "unregistered"
                  ELSE life[m]]
    /\ UNCHANGED <<instvars, portvars, ids, stops, sweep, todo, snapshot, swept, raisedIn, during>>

\* await instance.stop() by the user: HTMLnoJS.stop returns or raises; it
\* does not touch the registry
instance_stop(n) ==
    /\ life[n] \in {"registered", "overwritten", "unregistered", "swept"}
    /\ n \notin todo
    /\ \E out \in {"returned", "raised"} : stops' = [stops EXCEPT ![n] = out]
    /\ UNCHANGED <<instvars, portvars, ids, life, instances, sweep, todo, snapshot, swept, raisedIn, during>>

\* InstanceRegistry.stop_all() begins: it takes the registry for itself and
\* goes through the instances registered now
stop_all_begin ==
    /\ impl # "mono"
    /\ sweep = "idle"
    /\ sweep' = "sweeping"
    /\ todo' = list_all
    /\ snapshot' = list_all
    /\ swept' = {}
    /\ raisedIn' = {}
    /\ UNCHANGED <<instvars, portvars, ids, life, stops, instances, during>>

\* a sweep that one failing stop() brings to an end
stop_all_step_aborting(n) ==
    /\ sweep = "sweeping"
    /\ n \in todo
    /\ swept' = swept \cup {n}
    /\ \E out \in {"returned", "raised"} :
          /\ stops' = [stops EXCEPT ![n] = out]
          /\ raisedIn' = IF out = "raised" THEN raisedIn \cup {n} ELSE raisedIn
          /\ IF out = "raised"
               THEN sweep' = "idle" /\ todo' = {}
               ELSE sweep' = sweep /\ todo' = todo \ {n}
    /\ UNCHANGED <<instvars, portvars, ids, life, instances, snapshot, during>>

\* stop_all(): await instance.stop() for the next instance; a failure is
\* reported and the sweep goes on
stop_all_step(n) ==
    /\ sweep = "sweeping"
    /\ n \in todo
    /\ todo' = todo \ {n}
    /\ swept' = swept \cup {n}
    /\ \E out \in {"returned", "raised"} :
          /\ stops' = [stops EXCEPT ![n] = out]
          /\ raisedIn' = IF out = "raised" THEN raisedIn \cup {n} ELSE raisedIn
    /\ UNCHANGED <<instvars, portvars, ids, life, instances, sweep, snapshot, during>>

\* stop_all(): every instance has been gone through: clear the registry
stop_all_end ==
    /\ sweep = "sweeping"
    /\ todo = {}
    /\ sweep' = "idle"
    /\ instances' = [id \in Ids |-> 0]
    /\ life' = [n \in Instances |->
                  IF life[n] = "registered" /\ n \in swept THEN "swept" ELSE life[n]]
    /\ UNCHANGED <<instvars, portvars, ids, stops, todo, snapshot, swept, raisedIn, during>>

NextRegistry ==
    \/ \E id \in Ids : mono_init(id)
    \/ \E id \in Ids : core_init(id)
    \/ \E n \in Instances : InstanceRegistry_register(n)
    \/ \E id \in Ids : InstanceRegistry_unregister(id)
    \/ \E n \in Instances : core_del(n)
    \/ \E n \in Instances : instance_stop(n)
    \/ stop_all_begin
    \/ \E n \in Instances : stop_all_step(n)
    \/ stop_all_end

\* the process has created no instance yet
RegistrySpecInit == Init /\ toolchain /\ py_htmx_exists

SpecRegistry == RegistrySpecInit /\ [][NextRegistry]_vars

\* the instances that a creation has registered and nothing has unregistered
Registered == {n \in Instances : life[n] = "registered"}

\* the instances created so far have pairwise distinct ids
DistinctIds ==
    \A n, m \in Instances : (n # m /\ ids[n] # "none") => ids[n] # ids[m]

RegisteredUnder(id) == {n \in Registered : ids[n] = id}

\* C12: when the instances were created with distinct ids, get(id) is the
\* instance registered under id, or none when no instance is registered
\* under it, and list_all() is the set of the registered instances
C12_RegistryLookup ==
    DistinctIds =>
        /\ \A id \in Ids :
              IF RegisteredUnder(id) = {} THEN get(id) = 0
              ELSE get(id) \in RegisteredUnder(id)
        /\ list_all = Registered

\* of two instances with distinct ids one has been unregistered and is not
\* found any more, the other is found under its id and is all that
\* list_all() holds
C12_Witness ==
    /\ DistinctIds
    /\ \E n, k \in Instances :
          /\ life[n] = "registered" /\ get(ids[n]) = n
          /\ life[k] \in {"unregistered", "finalized"} /\ get(ids[k]) = 0
          /\ list_all = {n}

\* the constructor of instance n comes to its end in this step
ConstructorEnds(n) ==
    /\ life[n] \in {"unborn", "registering"}
    /\ life'[n] \notin {"unborn", "registering"}

\* C13: a creation under an id that is registered already fails with
\* DuplicateId and leaves the entry of that id as it was
C13_DuplicateIdRejected ==
    [][\A n \in Instances :
          (ConstructorEnds(n) /\ get(ids'[n]) # 0) =>
              (life'[n] = "rejected" /\ instances' = instances)]_vars

\* C14: an instance whose stop() has completed is not registered: get(id)
\* does not return it and list_all() does not hold it
C14_StoppedIsUnregistered ==
    \A n \in Instances :
        stops[n] = "returned" => (get(ids[n]) # n /\ n \notin list_all)

\* C15: a stop_all() in which the stop() of some instance raised ends having
\* called stop() on every instance that was registered, and with the
\* registry empty
C15_SweepCompletes ==
    [][(sweep = "sweeping" /\ sweep' = "idle" /\ raisedIn' # {}) =>
          (swept' = snapshot' /\ list_all' = {})]_vars

\* a stop_all() over two instances has ended: the stop() of one raised, that
\* of the other returned, and the registry is empty
C15_Witness ==
    /\ sweep = "idle"
    /\ Cardinality(snapshot) = 2
    /\ swept = snapshot
    /\ \E k \in raisedIn : \E n \in swept : n # k /\ stops[n] = "returned"
    /\ list_all = {}

is_port_available_always(port) == TRUE

\* is_port_available(port): bind(('', port)) works: True; OSError: False
is_port_available(port) == port \notin occupied

\* the ports of the scan window of a call with this start_port
Window(start) == start..(start + ScanWindow - 1)

PortCall(f, start, cnt) ==
    /\ ppc \in {"idle", "returned", "raised"}
    /\ caller' = f
    /\ ppc' = "scanning"
    /\ start_port' = start
    /\ count' = cnt
    /\ current_port' = start
    /\ available_ports' = <<>>
    /\ probed' = {}
    /\ presult' = <<>>
    /\ UNCHANGED <<instvars, regvars, occupied>>

\* PortManager.find_available_ports(start, cnt)
find_available_ports_call(start, cnt) == PortCall("find_available_ports", start, cnt)

\* PortManager.find_available_port(start, cnt): ports = find_available_ports(start, cnt)
find_available_port_call(start, cnt) == PortCall("find_available_port", start, cnt)

\* PortManager.allocate_port_pair(start): ports = find_available_ports(start, 2)
allocate_port_pair_call(start) == PortCall("allocate_port_pair", start, 2)

\* a loop body that stays on a port it has found free
find_available_ports_step_stuck ==
    /\ ppc = "scanning"
    /\ Len(available_ports) < count /\ current_port < start_port + ScanWindow
    /\ IF is_port_available(current_port)
         THEN /\ available_ports' = Append(available_ports, current_port)
              /\ probed' = probed \cup {current_port}
              /\ current_port' = current_port
         ELSE /\ current_port' = current_port + 1
              /\ UNCHANGED <<available_ports, probed>>
    /\ UNCHANGED <<instvars, regvars, occupied, caller, ppc, start_port, count, presult>>

\* while len(available_ports) < count and current_port < start_port + 1000:
\*     if is_port_available(current_port): available_ports.append(current_port)
\*     current_port += 1
find_available_ports_step ==
    /\ ppc = "scanning"
    /\ Len(available_ports) < count /\ current_port < start_port + ScanWindow
    /\ IF is_port_available(current_port)
         THEN /\ available_ports' = Append(available_ports, current_port)
              /\ probed' = probed \cup {current_port}
         ELSE UNCHANGED <<available_ports, probed>>
    /\ current_port' = current_port + 1
    /\ UNCHANGED <<instvars, regvars, occupied, caller, ppc, start_port, count, presult>>

\* the while loop of find_available_ports has come to its end
ScanOver ==
    /\ ppc = "scanning"
    /\ ~(Len(available_ports) < count /\ current_port < start_port + ScanWindow)

\* a find_available_ports that raises when it has found fewer than count
find_available_ports_return_strict ==
    /\ ScanOver
    /\ caller = "find_available_ports"
    /\ IF Len(available_ports) < count
         THEN ppc' = "raised" /\ presult' = <<>>
         ELSE ppc' = "returned" /\ presult' = available_ports
    /\ UNCHANGED <<instvars, regvars, occupied, caller, start_port, count,
                   current_port, available_ports, probed>>

\* find_available_ports: return available_ports
find_available_ports_return ==
    /\ ScanOver
    /\ caller = "find_available_ports"
    /\ ppc' = "returned"
    /\ presult' = available_ports
    /\ UNCHANGED <<instvars, regvars, occupied, caller, start_port, count,
                   current_port, available_ports, probed>>

\* find_available_port: return ports[0] if ports else None
find_available_port_return ==
    /\ ScanOver
    /\ caller = "find_available_port"
    /\ ppc' = "returned"
    /\ presult' = IF available_ports # <<>> THEN <<available_ports[1]>> ELSE <<>>
    /\ UNCHANGED <<instvars, regvars, occupied, caller, start_port, count,
                   current_port, available_ports, probed>>

\* an allocate_port_pair that hands on whatever the scan has found
allocate_port_pair_return_short ==
    /\ ScanOver
    /\ caller = "allocate_port_pair"
    /\ ppc' = "returned"
    /\ presult' = available_ports
    /\ UNCHANGED <<instvars, regvars, occupied, caller, start_port, count,
                   current_port, available_ports, probed>>

\* allocate_port_pair: if len(ports) < 2: raise RuntimeError;
\* return ports[0], ports[1]
allocate_port_pair_return ==
    /\ ScanOver
    /\ caller = "allocate_port_pair"
    /\ IF Len(available_ports) < 2
         THEN ppc' = "raised" /\ presult' = <<>>
         ELSE ppc' = "returned" /\ presult' = <<available_ports[1], available_ports[2]>>
    /\ UNCHANGED <<instvars, regvars, occupied, caller, start_port, count,
                   current_port, available_ports, probed>>

(***************************************************************************)
(* The ports of an instance: what the constructors make of their argument  *)
(* port.                                                                   *)
(***************************************************************************)
\* core: if port: go_port = port; python_port = port + 1
\*       else: go_port, python_port = PortManager.allocate_port_pair(8080)
core_init_ports(port) ==
    IF port # 0
      THEN /\ ppc \in {"idle", "returned", "raised"}
           /\ caller' = "core_init"
           /\ ppc' = "returned"
           /\ presult' = <<port, port + 1>>
           /\ available_ports' = <<>>
           /\ probed' = {}
           /\ UNCHANGED <<instvars, regvars, occupied, start_port, count, current_port>>
      ELSE PortCall("core_init", DefaultStart, 2)

\* core: allocate_port_pair comes back to the constructor, or raises
core_init_ports_return ==
    /\ ScanOver
    /\ caller = "core_init"
    /\ IF Len(available_ports) < 2
         THEN ppc' = "raised" /\ presult' = <<>>
         ELSE ppc' = "returned" /\ presult' = <<available_ports[1], available_ports[2]>>
    /\ UNCHANGED <<instvars, regvars, occupied, caller, start_port, count,
                   current_port, available_ports, probed>>

\* mono: HTMLnoJS._find_available_port: for port in range(start, start + 100):
\* the first port that binds; RuntimeError when none does.  The result is
\* <<port>>, or <<>> for the error
RECURSIVE mono_find_available_port(_, _)
mono_find_available_port(port, left) ==
    IF left = 0 THEN <<>>
    ELSE IF is_port_available(port) THEN <<port>>
    ELSE mono_find_available_port(port + 1, left - 1)

\* mono: self.go_port = port or self._find_available_port(8080);
\*       self.python_port = self.go_port + 1
mono_init_ports(port) ==
    /\ ppc \in {"idle", "returned", "raised"}
    /\ caller' = "mono_init"
    /\ available_ports' = <<>>
    /\ LET found == IF port # 0 THEN <<port>>
                    ELSE mono_find_available_port(DefaultStart, ScanWindow)
       IN  /\ probed' = IF port # 0 THEN {} ELSE {found[a] : a \in 1..Len(found)}
           /\ IF found = <<>>
                THEN ppc' = "raised" /\ presult' = <<>>
                ELSE ppc' = "returned" /\ presult' = <<found[1], found[1] + 1>>
    /\ UNCHANGED <<instvars, regvars, occupied, start_port, count, current_port>>

NextPorts ==
    \/ \E start \in Starts, cnt \in 1..MaxCount : find_available_ports_call(start, cnt)
    \/ \E start \in Starts, cnt \in 1..MaxCount : find_available_port_call(start, cnt)
    \/ \E start \in Starts : allocate_port_pair_call(start)
    \/ find_available_ports_step
    \/ find_available_ports_return
    \/ find_available_port_return
    \/ allocate_port_pair_return
    \/ \E port \in PortArgs : core_init_ports(port)
    \/ core_init_ports_return
    \/ \E port \in PortArgs : mono_init_ports(port)

\* any set of ports of the host may be taken
PortsSpecInit ==
    /\ InstanceInit /\ impl = "core" /\ toolchain /\ py_htmx_exists
    /\ RegistryInit
    /\ occupied \in SUBSET Ports
    /\ PortsIdle
    /\ DepsIdle /\ gofault = "missing" /\ script = "absent"

SpecPorts == PortsSpecInit /\ [][NextPorts]_vars

\* the ports of the window of the call that a bind would succeed on
Available == {p \in Window(start_port) : p \notin occupied}

\* allocate_port_pair has returned a pair
PairReturned == caller = "allocate_port_pair" /\ ppc = "returned"

\* C17: the two ports that allocate_port_pair returns differ, and a bind on
\* each of them has succeeded during the call
C17_PairDistinctAndProbed ==
    PairReturned =>
        /\ Len(presult) = 2
        /\ presult[1] # presult[2]
        /\ {presult[1], presult[2]} \subseteq probed

\* a pair has been returned by a scan that had to pass over a taken port
C17_Witness ==
    /\ PairReturned
    /\ presult[1] # presult[2]
    /\ {presult[1], presult[2]} \subseteq probed
    /\ \E p \in occupied : presult[1] < p /\ p < presult[2]

ScanReturned == caller = "find_available_ports" /\ ppc \in {"returned", "raised"}

\* what find_available_ports returns when it returns: ports of the window,
\* pairwise distinct and strictly ascending
WellFormed(s) ==
    /\ Ascending(s)
    /\ \A a \in 1..Len(s) : s[a] \in Window(start_port)

PairEnded == caller = "allocate_port_pair" /\ ppc \in {"returned", "raised"}

\* C20: when fewer than two ports of the window are free, allocate_port_pair
\* fails and returns no port
C20_PairFailsWhenExhausted ==
    (PairEnded /\ Cardinality(Available) < 2) =>
        (ppc = "raised" /\ presult = <<>>)

\* allocate_port_pair has failed on a window with a single free port
C20_Witness ==
    /\ caller = "allocate_port_pair"
    /\ ppc = "raised"
    /\ presult = <<>>
    /\ Cardinality(Available) = 1

\* C21: the pair that allocate_port_pair returns is made of two consecutive
\* ports
C21_PairConsecutive ==
    PairReturned => presult[2] = presult[1] + 1

\* the constructor has come to its end with the two ports set
PortsSet == caller \in {"core_init", "mono_init"} /\ ppc = "returned"
go_port == presult[1]
python_port == presult[2]

\* C22: the two ports of an instance differ and both are greater than 0,
\* whether the constructor was given a port or has allocated them
C22_PortsDistinctPositive ==
    PortsSet => (go_port # python_port /\ go_port > 0 /\ python_port > 0)

(***************************************************************************)
(* The dependency gate, one step of its code at a time.                    *)
(***************************************************************************)
\* the try block of check_go_available: create_subprocess_exec("go",
\* "version") and its return code; raised when the spawn fails
go_version ==
    IF toolchain THEN "0"
    ELSE IF gofault = "spawn_error" THEN "raised"
    ELSE "1"

\* shutil.which("go") is None
which_go_is_None == ~toolchain /\ gofault = "missing"

\* a check that keeps no answer and looks at the environment every time
check_go_available_uncached ==
    IF which_go_is_None THEN "false"
    ELSE IF go_version = "0" THEN "true"
    ELSE "false"

\* a check that lets the error of the spawn through
check_go_available_uncaught ==
    IF go_validated THEN "true"
    ELSE IF which_go_is_None THEN "false"
    ELSE IF go_version = "0" THEN "true"
    ELSE go_version

\* DependencyManager.check_go_available, with the way it ends: true, false
\* or raised.  except Exception: pass, and then return False
check_go_available_outcome ==
    IF go_validated THEN "true"
    ELSE IF which_go_is_None THEN "false"
    ELSE IF go_version = "0" THEN "true"
    ELSE "false"

\* an install action that lets the error of the spawn through
install_go_dependencies_uncaught ==
    IF script = "absent" THEN "false"
    ELSE IF script = "unrunnable" THEN "raised"
    ELSE IF script = "ok" THEN "true" ELSE "false"

\* DependencyManager.install_go_dependencies / HTMLnoJS._install_go_dependencies:
\* False when the script is not there, when powershell cannot be spawned
\* (except Exception: return False) and when the script exits with an error
install_go_dependencies ==
    IF script = "absent" THEN "false"
    ELSE IF script = "unrunnable" THEN "false"
    ELSE IF script = "ok" THEN "true" ELSE "false"

depframe == <<impl, pc, at, i, call, wait_for_deps, result, retSite, process, orphan,
              readiness, thread, server, j, py_htmx_exists,
              prev, startOrder, stopOrder, spawned, signalled, okProbe, healthySeen,
              setupRan, spc, sat, regvars, portvars, reg_map, response, overlapvars>>

\* HTMLnoJS.check_dependencies of core: return await check_go_available()
check_dependencies_call ==
    /\ dpc \in {"idle", "returned", "raised"}
    /\ checked' = check_go_available_outcome
    /\ go_validated' = (go_validated \/ checked' = "true")
    /\ dpc' = IF checked' = "raised" THEN "raised" ELSE "idle"
    /\ dresult' = "none"
    /\ UNCHANGED <<depframe, toolchain, gofault, script, timeout, elapsed, slept,
                   installs, polls, appeared>>

\* ensure_dependencies(timeout) / wait_for_dependencies(timeout) is called:
\* if await self.check_go_available(): return True
ensure_dependencies_call(t) ==
    /\ dpc \in {"idle", "returned", "raised"}
    /\ timeout' = t
    /\ elapsed' = 0 /\ slept' = 0 /\ installs' = 0 /\ polls' = 0
    /\ appeared' = FALSE
    /\ checked' = check_go_available_outcome
    /\ go_validated' = (go_validated \/ checked' = "true")
    /\ dpc' = CASE checked' = "true" -> "returned"
                [] checked' = "raised" -> "raised"
                [] OTHER -> "install"
    /\ dresult' = IF checked' = "true" THEN "true" ELSE "none"
    /\ UNCHANGED <<depframe, toolchain, gofault, script>>

\* if await self.install_go_dependencies(): return await self.wait_for_go(timeout)
\* return False
ensure_dependencies_install ==
    /\ dpc = "install"
    /\ installs' = installs + 1
    /\ LET installed == install_go_dependencies
       IN  /\ dpc' = CASE installed = "true" -> "loop"
                       [] installed = "raised" -> "raised"
                       [] OTHER -> "returned"
           /\ dresult' = IF installed = "false" THEN "false" ELSE "none"
    /\ UNCHANGED <<depframe, deps, gofault, script, timeout, elapsed, slept, polls,
                   checked, appeared>>

\* wait_for_go: while time() - start_time < timeout:
\*     if await self.check_go_available(): return True
\*     await asyncio.sleep(5)
\* return False
\* _wait_for_go of mono runs the same check and does not keep its answer
wait_for_go_loop ==
    /\ dpc = "loop"
    /\ IF elapsed < timeout
         THEN /\ polls' = polls + 1
              /\ checked' = check_go_available_outcome
              /\ go_validated' = (go_validated \/ (impl # "mono" /\ checked' = "true"))
              /\ dpc' = CASE checked' = "true" -> "returned"
                          [] checked' = "raised" -> "raised"
                          [] OTHER -> "sleep"
              /\ dresult' = IF checked' = "true" THEN "true" ELSE "none"
         ELSE /\ dpc' = "returned"
              /\ dresult' = "false"
              /\ UNCHANGED <<polls, checked, go_validated>>
    /\ slept' = 0
    /\ UNCHANGED <<depframe, toolchain, gofault, script, timeout, elapsed, installs,
                   appeared>>

\* time passes in asyncio.sleep(5)
wait_for_go_sleep ==
    /\ dpc = "sleep"
    /\ slept < PollInterval
    /\ slept' = slept + 1
    /\ elapsed' = elapsed + 1
    /\ UNCHANGED <<depframe, deps, dpc, gofault, script, timeout, installs, polls,
                   dresult, checked, appeared>>

\* asyncio.sleep(5) is over
wait_for_go_wake ==
    /\ dpc = "sleep"
    /\ slept = PollInterval
    /\ dpc' = "loop"
    /\ UNCHANGED <<depframe, deps, gofault, script, timeout, elapsed, slept, installs,
                   polls, dresult, checked, appeared>>

\* environment: the toolchain turns up while the call is in progress (the
\* install action has put it there, or somebody else has)
toolchain_appears ==
    /\ dpc \in {"install", "loop", "sleep"}
    /\ ~toolchain
    /\ toolchain' = TRUE
    /\ appeared' = (elapsed < timeout)
    /\ UNCHANGED <<depframe, go_validated, dpc, gofault, script, timeout, elapsed,
                   slept, installs, polls, dresult, checked>>

\* environment: the toolchain is taken away (uninstalled, or off the path)
toolchain_disappears ==
    /\ toolchain
    /\ toolchain' = FALSE
    /\ UNCHANGED <<depframe, go_validated, depvars>>

GateStep ==
    \/ ensure_dependencies_install
    \/ wait_for_go_loop
    \/ wait_for_go_sleep
    \/ wait_for_go_wake

NextDeps ==
    \/ check_dependencies_call
    \/ \E t \in Timeouts : ensure_dependencies_call(t)
    \/ GateStep
    \/ toolchain_appears
    \/ toolchain_disappears

\* any state of the toolchain and of the install script
DepsSpecInit ==
    /\ InstanceInit /\ impl \in {"core", "mono"} /\ py_htmx_exists
    /\ RegistryInit
    /\ occupied = {}
    /\ PortsIdle
    /\ DepsIdle
    /\ gofault \in GoFaults
    /\ script \in Scripts

SpecDeps == DepsSpecInit /\ [][NextDeps]_vars

\* the event loop runs a call that has been made to its end
SpecDepsFair == SpecDeps /\ WF_vars(GateStep)

\* the call of the gate has returned
EnsureReturned == dpc = "returned"

\* C23: a call that found the toolchain absent runs the install action once
\* and returns only when a poll has found the toolchain or the timeout has
\* elapsed, whatever the install action reported; a toolchain that turned up
\* before the timeout makes it return true
C23_PollsUntilAvailableOrTimeout ==
    (EnsureReturned /\ installs > 0) =>
        /\ installs = 1
        /\ (dresult = "true" \/ elapsed >= timeout)
        /\ (appeared => dresult = "true")

\* the install action cannot be performed
NoInstallCapability == script \in {"absent", "unrunnable"}

\* C24: with the toolchain absent and no install capability, the call does
\* not raise, and it comes to its end and returns false for every timeout
C24_TerminatesFalse ==
    /\ [](NoInstallCapability => dpc # "raised")
    /\ (dpc = "install" /\ NoInstallCapability) ~> (EnsureReturned /\ dresult = "false")

C24_Witness ==
    /\ EnsureReturned /\ dresult = "false" /\ installs = 1
    /\ script = "unrunnable" /\ ~toolchain /\ timeout = 7

\* the step runs the self-check: a call of check_dependencies, the first line
\* of ensure_dependencies, or an iteration of the loop of wait_for_go
CheckCall ==
    \/ check_dependencies_call
    \/ \E t \in Timeouts : ensure_dependencies_call(t)
    \/ wait_for_go_loop /\ elapsed < timeout

\* C25: check_go_available does not raise; with no executable, with a spawn
\* that fails and with an exit code other than 0 its value is false
C25_CheckNeverRaises ==
    /\ [](checked # "raised" /\ dpc # "raised")
    /\ [][(CheckCall /\ ~toolchain /\ ~go_validated) => checked' = "false"]_vars

C25_Witness ==
    checked = "false" /\ ~toolchain /\ gofault = "spawn_error"

(***************************************************************************)
(* status() of the orchestrator.                                           *)
(***************************************************************************)
\* HTMXServer._started of pkg: __init__ does not set it; the thread sets it
\* to True with self._server (src/htmlnojs/htmx_server.py:123-124), and a
\* stop() that shuts the server down sets it to False (line 152)
HTMXServer_started ==
    IF server = "none" THEN "unset"
    ELSE IF thread = "closed" THEN "false"
    ELSE "true"

\* HTMXServer.get_status() of pkg: "running": self._started, an
\* AttributeError while the attribute is not there
HTMXServer_get_status ==
    IF HTMXServer_started = "unset" THEN "raised" ELSE "returned"

\* how a call of status() ends in the current state.  core and mono read
\* handles and flags that their constructors have set
status_outcome ==
    IF impl = "pkg" THEN HTMXServer_get_status ELSE "returned"

\* C26: status() can be called in every state of the life of the instance
\* and returns its snapshot without raising (it is a read of the state and
\* changes none of it)
C26_StatusNeverRaises ==
    status_outcome = "returned"

\* C27: the HTMX server of pkg is declared ready (its is_running() has
\* answered true) only if its one fetch of the route registry of the Go
\* server has succeeded
C27_ReadyOnlyWithRegistry ==
    (impl = "pkg" /\ healthySeen["htmx"]) => reg_map = "fetched"

(***************************************************************************)
(* The instance as an async context manager:                               *)
(*     async with htmlnojs(...) as app: <body>                             *)
(***************************************************************************)
\* __aenter__: await self.start(); return self
aenter ==
    /\ pc = "idle"
    /\ start_call(TRUE)

\* the body is running: __aenter__ has returned (a start() that raised has
\* left the statement without entering the body)
InBody == call = "start" /\ pc = "ret" /\ result # "raised"

\* the body is left, by its end or by an exception.
\* __aexit__: await self.stop()
aexit ==
    /\ InBody
    /\ stop_call

NextWith ==
    \/ aenter
    \/ aexit
    \/ Steps

SpecWith == Init /\ [][NextWith]_vars

\* __aexit__ is over, whether stop() returned or raised
Exited == call = "stop" /\ pc = "ret"

\* both servers are running and have been found healthy
Ready == \A s \in Servers : Listening(s) /\ healthySeen[s]

\* C28: when the body of the async with is entered the instance is ready,
\* and when the statement has been left, stop() has been called and no
\* child process is alive
C28_BodyReadyExitStopped ==
    [][ /\ (~InBody /\ InBody') => (result' = "true" /\ Ready')
        /\ (~Exited /\ Exited') => (\A s \in Servers : process'[s] # "alive" /\ ~orphan'[s])
      ]_vars

\* a server's start is at the head of an iteration of its readiness loop
AtPollHead == pc \in {"first", "second"} /\ at = "poll"

\* C29: in the readiness loop of a server's start, once the child has
\* exited, the next iteration sends no further probe: start returns false
\* there without waiting for the rest of the budget
C29_FailFastOnCrash ==
    [][(AtPollHead /\ process[Cur] = "exited") => at' # "probing"]_vars

\* the start of the server at pc comes back with True to the start() of core
\* or mono in this step
ServerStartTrue ==
    /\ impl # "pkg"
    /\ \/ pc = "first" /\ pc' = "second"
       \/ pc = "second" /\ pc' = "ret" /\ result' = "true"

\* C30: the start of a server returns true only if the child it holds has
\* answered a health probe below 500, in this call or in an earlier one; a
\* second start() after one that exhausted its budget on a child that is
\* alive and was never healthy does not return true without probing
C30_TrueOnlyAfterHealthyProbe ==
    [][ServerStartTrue => healthySeen'[Cur]]_vars

\* the step is a health probe of a readiness loop of src/go_server.py or
\* src/htmx_server.py: the loop is at its probe and the step takes it on
LoopProbe ==
    /\ pc \in {"first", "second"} /\ at = "probing"
    /\ Kind(Cur) \in {"GoServer", "Mono"}
    /\ <<pc, at>>' # <<pc, at>>

\* C31: a probe answered with a status below 500 ends the loop and the
\* server's start returns true; a status of 500 or above and a probe error
\* are not yet ready: nothing is returned and the loop goes on with its next
\* iteration
C31_ProbeClassification ==
    [][LoopProbe =>
         IF ~response'.err /\ response'.status < 500
           THEN \/ pc = "first" /\ pc' = "second"
                \/ pc = "second" /\ pc' = "ret" /\ result' = "true"
           ELSE /\ pc' = pc /\ at' = "poll" /\ i' = i + 1
                /\ result' = result /\ process' = process]_vars

C31_Witness ==
    /\ Starting("go", "GoServer", "poll") /\ i >= 1
    /\ response.status = 503 /\ process["go"] = "alive"

\* the readiness loop of a server of src/go_server.py or src/htmx_server.py
\* finds its budget used up and the step ends it
LoopExhausted ==
    /\ pc \in {"first", "second"} /\ at = "poll" /\ i >= PollCount
    /\ Kind(Cur) \in {"GoServer", "Mono"}
    /\ <<pc, at>>' # <<pc, at>>

\* C32: when the poll loop has used up its budget the server's start
\* returns false and leaves the child alone: no signal is sent and the
\* handle is kept, so that a later stop() of the server signals the child
\* and waits for it
C32_ExhaustedLeavesChild ==
    [][ /\ LoopExhausted =>
             /\ ~(pc = "first" /\ pc' = "second") /\ result' # "true"
             /\ process' = process /\ orphan' = orphan /\ signalled' = signalled
        /\ (Stopping("go", "GoServer", "entry") /\ process["go"] = "alive"
              /\ <<pc, at>>' # <<pc, at>>) =>
             ("go" \in signalled' /\ at' = "wait" /\ process' = process)
      ]_vars

C32_Witness ==
    /\ impl = "core" /\ StartReturned("false")
    /\ "go" \in spawned /\ "go" \notin signalled
    /\ process["go"] = "alive" /\ ~healthySeen["go"]

\* C33: stopped is terminal for a server: once stop() has been called on
\* the GoServer, a later start() does not take it out of stopped and spawns
\* no new child
C33_StoppedIsTerminal ==
    [][(impl = "core" /\ call = "start" /\ prev = "stop") =>
          ("go" \in spawned' => "go" \in spawned)]_vars

(***************************************************************************)
(* Termination of the calls.                                               *)
(***************************************************************************)
\* a step of the call in progress: the coroutine moves on
CallStep == Steps /\ <<pc, at, i>>' # <<pc, at, i>>

\* the event loop runs the call in progress whenever it can go on; nothing
\* is assumed of the children, which may never exit
SpecLive == Spec /\ WF_vars(CallStep)

\* the start or the stop of a server of src/go_server.py or src/htmx_server.py
\* is in progress at position p of the call
ServerCall(p) ==
    pc = p /\ Kind(Cur) \in {"GoServer", "Mono"}

\* C34: every waiting loop is bounded: the start of a server ends after its
\* budget of probes and the stop of a server returns after it has signalled
\* termination, whatever the child does (never answering, ignoring the
\* termination signal)
C34_EveryWaitEnds ==
    \A p \in {"first", "second", "rollback", "stop1", "stop2"} :
        ServerCall(p) ~> (pc # p)

\* C35: a positive answer of check_go_available is kept for the life of the
\* gate: once it is kept every call returns true without looking at the
\* environment, even when the toolchain has gone; a negative answer is not
\* kept: a call made without a kept answer follows the environment
C35_OnlyPositiveCached ==
    /\ [](go_validated => check_go_available_outcome = "true")
    /\ [][go_validated => go_validated']_vars
    /\ [][(CheckCall /\ (impl = "core" \/ dpc # "loop") /\ checked' = "true")
            => go_validated']_vars
    /\ [][(CheckCall /\ ~go_validated) =>
            checked' = (IF toolchain THEN "true" ELSE "false")]_vars

C35_Witness ==
    go_validated /\ ~toolchain /\ checked = "true" /\ dpc = "idle"

(***************************************************************************)
(* Two start() calls on the same GoServer that overlap: a second task      *)
(* calls GoServer.start while the first call is suspended inside           *)
(* create_subprocess_exec (the handle is not assigned yet), in a probe or  *)
(* in the sleep of its loop.  GoServer holds no lock.                      *)
(***************************************************************************)
overlapframe == <<impl, pc, at, i, call, wait_for_deps, result, retSite, readiness,
                  thr, deps, py_htmx_exists, prev, startOrder, stopOrder, signalled,
                  okProbe, setupRan, spc, regvars, portvars, depvars, reg_map,
                  response>>

\* the second start(): if self.is_running: return True; otherwise go on to
\* create_subprocess_exec
second_start_request ==
    /\ Starting("go", "GoServer", at) /\ at \in {"spawning", "poll", "probing"}
    /\ t2 = "none"
    /\ t2' = IF is_running("go") THEN "true" ELSE "spawning"
    /\ UNCHANGED <<overlapframe, t2i, process, orphan, healthySeen, spawned, sat>>

\* self._process = await asyncio.create_subprocess_exec(...), or the spawn
\* raises (except Exception: return False)
task_GoServer_start_spawn ==
    /\ t2 = "spawning"
    /\ \/ Spawn("go") /\ t2' = "poll" /\ t2i' = 0
       \/ t2' = "false" /\ UNCHANGED <<t2i, process, orphan, healthySeen, spawned, sat>>
    /\ UNCHANGED overlapframe

\* head of an iteration of the loop of the second start()
task_GoServer_start_poll ==
    /\ t2 = "poll"
    /\ t2' = IF t2i >= PollCount \/ process["go"] \in {"exited", "none"}
               THEN "false" ELSE "probing"
    /\ UNCHANGED <<overlapframe, t2i, process, orphan, healthySeen, spawned, sat>>

\* if await self._test_health(): return True; else sleep(1) and loop
task_GoServer_start_probe ==
    /\ t2 = "probing"
    /\ \E r \in Probe("go") :
          IF test_health(r)
            THEN /\ t2' = "true"
                 /\ healthySeen' = [healthySeen EXCEPT !["go"] = TRUE]
                 /\ UNCHANGED t2i
            ELSE /\ t2' = "poll"
                 /\ t2i' = t2i + 1
                 /\ UNCHANGED healthySeen
    /\ UNCHANGED <<overlapframe, process, orphan, spawned, sat>>

NextOverlap ==
    \/ Next
    \/ second_start_request
    \/ task_GoServer_start_spawn
    \/ task_GoServer_start_poll
    \/ task_GoServer_start_probe

SpecOverlap == Init /\ [][NextOverlap]_vars

\* C36: a GoServer has at most one live child: no start() spawns a child
\* while one spawned earlier is alive, so that no live child is left without
\* a handle; for calls in sequence and for two start() calls that overlap
C36_AtMostOneLiveChild ==
    impl = "core" => ~orphan["go"]

\* HTMXServer.stop() of pkg has returned: stop() of the orchestrator has
\* come to its end after its second component stop
HTMXServerStopped ==
    impl = "pkg" /\ call = "stop" /\ pc = "ret" /\ retSite = "stop2"

\* C37: once HTMXServer.stop() has returned the HTMX server is not serving
\* and does not start serving later, also when stop() was called while the
\* thread was still waiting for the Go server or fetching the registry
C37_NoServingAfterStop ==
    HTMXServerStopped => thread # "serving"

=============================================================================
